---- MODULE Spec2Model ----
(***************************************************************************)
(* The ordered-list position engine of the kanban task board              *)
(* (TaskService in services/taskService.ts): createTask allocates an      *)
(* orderIndex, updateTaskOrder moves a task between statuses/positions,   *)
(* rebalanceTaskOrder re-numbers partitions, deleteTask removes a task.   *)
(* The store is the Task collection; a partition is (createdBy, status).  *)
(***************************************************************************)
EXTENDS Integers, FiniteSets, Sequences, TLC

VARIABLES
  tasks,     \* the Task collection: task id -> [createdBy, status, orderIndex]
  nextId,    \* the next _id the store hands out (ids grow with creation time)
  last,      \* the last completed service call: its arguments, the store before it, its outcome
  flight,    \* the updateTaskOrder call that is between its load and its transaction
  calls,     \* the service calls in progress, statement by statement: request -> its locals
  timeLogs,  \* the TimeLog collection: log id -> [user, isActive]
  organization  \* the Organization document: [exists, members, v]

vars == <<tasks, nextId, last, flight, calls, timeLogs, organization>>

\* What the task service leaves alone when it runs call after call
services == <<calls, timeLogs, organization>>

-----------------------------------------------------------------------------
(* Bounds of the model *)

MaxTasks == 3      \* tasks ever created (ids 1..MaxTasks)

(* Program constants *)

SPACING == 1000

TaskStatus == {"todo", "in-progress", "review", "done", "archived"}

-----------------------------------------------------------------------------
(* Inputs the callers supply *)

Users == {"u1", "u2"}
StatusInputs == {"todo", "done"}
TaskIds == 1..MaxTasks
\* orderIndex passes the validator as any integer. On the spacing grid:
OrderInputs == {1000, 2000, 3000}
\* and off it, negative included:
OffGridInputs == {-500, 1500, 2000, 3500}

NoStatus == "none"
NoUser == "nobody"
NoId == 0

-----------------------------------------------------------------------------
(* Queries over a store (a function from existing ids to task documents) *)

\* Task.find({createdBy, status}): the ids of one partition
Partition(store, userId, status) ==
  {id \in DOMAIN store : store[id].createdBy = userId /\ store[id].status = status}

\* As MaxOrderIndex, had the query sorted ascending: the lowest orderIndex
MaxOrderIndex_Ascending(store, userId, status) ==
  LET P == {id \in DOMAIN store : store[id].createdBy = userId /\ store[id].status = status}
  IN CHOOSE m \in {store[id].orderIndex : id \in P} :
       \A id \in P : store[id].orderIndex >= m

\* Task.findOne({status, createdBy}).sort({orderIndex: -1}): the highest
\* orderIndex of the partition, or none when it is empty
MaxOrderIndex(store, userId, status) ==
  LET P == Partition(store, userId, status)
  IN CHOOSE m \in {store[id].orderIndex : id \in P} :
       \A id \in P : store[id].orderIndex <= m

\* As AllocateOrderIndex, had the first task of a partition kept the schema default 0
AllocateOrderIndex_FromZero(store, userId, status) ==
  IF Partition(store, userId, status) # {}
    THEN MaxOrderIndex(store, userId, status) + 1000
    ELSE 0

\* createTask's allocation, line 57
AllocateOrderIndex(store, userId, status) ==
  IF Partition(store, userId, status) # {}
    THEN MaxOrderIndex(store, userId, status) + 1000
    ELSE 1000

\* As UpdateManyInc, had the increment been twice the spacing
UpdateManyInc_Double(store, ids, delta) ==
  [id \in DOMAIN store |->
     IF id \in ids THEN [store[id] EXCEPT !.orderIndex = @ + 2 * delta] ELSE store[id]]

\* Task.updateMany(filter, {$inc: {orderIndex: delta}}) on the matched ids
UpdateManyInc(store, ids, delta) ==
  [id \in DOMAIN store |->
     IF id \in ids THEN [store[id] EXCEPT !.orderIndex = @ + delta] ELSE store[id]]

\* As FindByIdAndUpdate, had the update left out the status
FindByIdAndUpdate_KeepStatus(store, taskId, newStatus, newOrderIndex) ==
  IF taskId \in DOMAIN store
    THEN [store EXCEPT ![taskId] = [@ EXCEPT !.orderIndex = newOrderIndex]]
    ELSE store

\* Task.findByIdAndUpdate(taskId, {status, orderIndex}): null when the id is gone
FindByIdAndUpdate(store, taskId, newStatus, newOrderIndex) ==
  IF taskId \in DOMAIN store
    THEN [store EXCEPT ![taskId] = [@ EXCEPT !.status = newStatus,
                                              !.orderIndex = newOrderIndex]]
    ELSE store

-----------------------------------------------------------------------------
(* updateTaskOrder: the range shifts, lines 169-216 *)

\* As MatchGte, had the filter not named the owner
MatchGte_AnyOwner(store, userId, status, n) ==
  {id \in DOMAIN store : store[id].status = status /\ store[id].orderIndex >= n}

\* As MatchGte, had the filter been $gt
MatchGte_Strict(store, userId, status, n) ==
  {id \in Partition(store, userId, status) : store[id].orderIndex > n}

\* {createdBy, status: newStatus, orderIndex: {$gte: newOrderIndex}}
MatchGte(store, userId, status, n) ==
  {id \in Partition(store, userId, status) : store[id].orderIndex >= n}

\* As MatchGt, had the filter not named the owner
MatchGt_AnyOwner(store, userId, status, n) ==
  {id \in DOMAIN store : store[id].status = status /\ store[id].orderIndex > n}

\* {createdBy, status: oldStatus, orderIndex: {$gt: oldOrderIndex}}
MatchGt(store, userId, status, n) ==
  {id \in Partition(store, userId, status) : store[id].orderIndex > n}

\* As MatchGteLt, had the upper end been $lte
MatchGteLt_Inclusive(store, userId, status, lo, hi) ==
  {id \in Partition(store, userId, status) :
     store[id].orderIndex >= lo /\ store[id].orderIndex <= hi}

\* {createdBy, status, orderIndex: {$gte: newOrderIndex, $lt: oldOrderIndex}}
MatchGteLt(store, userId, status, lo, hi) ==
  {id \in Partition(store, userId, status) :
     store[id].orderIndex >= lo /\ store[id].orderIndex < hi}

\* As MatchGtLte, had the upper end been $lt
MatchGtLte_Exclusive(store, userId, status, lo, hi) ==
  {id \in Partition(store, userId, status) :
     store[id].orderIndex > lo /\ store[id].orderIndex < hi}

\* {createdBy, status, orderIndex: {$gt: oldOrderIndex, $lte: newOrderIndex}}
MatchGtLte(store, userId, status, lo, hi) ==
  {id \in Partition(store, userId, status) :
     store[id].orderIndex > lo /\ store[id].orderIndex <= hi}

\* How many updateMany calls the move issues before the task's own update
NumShiftOps(oldStatus, oldOrderIndex, newStatus, newOrderIndex) ==
  IF oldStatus # newStatus THEN 2
  ELSE IF newOrderIndex # oldOrderIndex THEN 1
  ELSE 0

\* As FirstShift, had moving down incremented like moving up
FirstShift_WrongSign(store, userId, oldStatus, oldOrderIndex, newStatus, newOrderIndex) ==
  IF oldStatus # newStatus
    THEN UpdateManyInc(store, MatchGte(store, userId, newStatus, newOrderIndex), 1000)
  ELSE IF newOrderIndex < oldOrderIndex
    THEN UpdateManyInc(store,
           MatchGteLt(store, userId, newStatus, newOrderIndex, oldOrderIndex), 1000)
  ELSE IF newOrderIndex > oldOrderIndex
    THEN UpdateManyInc(store,
           MatchGtLte(store, userId, newStatus, oldOrderIndex, newOrderIndex), 1000)
  ELSE store

\* The first updateMany: make room in the target status (cross-status), or the
\* one range shift of a same-status reorder
FirstShift(store, userId, oldStatus, oldOrderIndex, newStatus, newOrderIndex) ==
  IF oldStatus # newStatus
    THEN UpdateManyInc(store, MatchGte(store, userId, newStatus, newOrderIndex), 1000)
  ELSE IF newOrderIndex < oldOrderIndex
    THEN UpdateManyInc(store,
           MatchGteLt(store, userId, newStatus, newOrderIndex, oldOrderIndex), 1000)
  ELSE IF newOrderIndex > oldOrderIndex
    THEN UpdateManyInc(store,
           MatchGtLte(store, userId, newStatus, oldOrderIndex, newOrderIndex), -1000)
  ELSE store

\* The second updateMany: close the gap in the source status (cross-status only)
SecondShift(store, userId, oldStatus, oldOrderIndex, newStatus, newOrderIndex) ==
  IF oldStatus # newStatus
    THEN UpdateManyInc(store, MatchGt(store, userId, oldStatus, oldOrderIndex), -1000)
    ELSE store

\* The session's view of the collection after its first k statements
SessionAfter(store, k, taskId, userId, oldStatus, oldOrderIndex, newStatus, newOrderIndex) ==
  LET s1 == FirstShift(store, userId, oldStatus, oldOrderIndex, newStatus, newOrderIndex)
      s2 == SecondShift(s1, userId, oldStatus, oldOrderIndex, newStatus, newOrderIndex)
      n == NumShiftOps(oldStatus, oldOrderIndex, newStatus, newOrderIndex)
      shifted == IF n = 2 THEN s2 ELSE s1
  IN IF k = 0 THEN store
     ELSE IF k = 1 /\ n >= 1 THEN s1
     ELSE IF k <= n THEN shifted
     ELSE FindByIdAndUpdate(shifted, taskId, newStatus, newOrderIndex)

\* session.commitTransaction(): the session's writes become the collection
commitTransaction(committed, working) == working

\* As abortTransaction, had the statements run outside the session
abortTransaction_KeepWrites(committed, working) == working

\* session.abortTransaction(): the session's writes are discarded
abortTransaction(committed, working) == committed

-----------------------------------------------------------------------------
(* rebalanceTaskOrder, lines 242-288 *)

\* As RebalanceStatuses, had the status of the call been ignored
RebalanceStatuses_All(store, userId, status) ==
  {store[id].status : id \in {i \in DOMAIN store : store[i].createdBy = userId}}

\* statuses = status ? [status] : Task.distinct('status', {createdBy: userId})
RebalanceStatuses(store, userId, status) ==
  IF status # NoStatus
    THEN {status}
    ELSE {store[id].status : id \in {i \in DOMAIN store : store[i].createdBy = userId}}

\* The orders the store may give to documents of equal sort key: the sort is
\* on orderIndex alone, so ties come back in an order the query does not fix
TieOrders(store) ==
  {f \in [DOMAIN store -> 1..Cardinality(DOMAIN store)] :
     \A a, b \in DOMAIN store : a # b => f[a] # f[b]}

\* As SortsBefore, had the sort been descending
SortsBefore_Descending(store, tie, a, b) ==
  \/ store[a].orderIndex > store[b].orderIndex
  \/ store[a].orderIndex = store[b].orderIndex /\ tie[a] < tie[b]

\* As SortsBefore, had the sort been on creation time
SortsBefore_ByCreation(store, tie, a, b) == a < b

\* a comes before b in Task.find(...).sort({orderIndex: 1})
SortsBefore(store, tie, a, b) ==
  \/ store[a].orderIndex < store[b].orderIndex
  \/ store[a].orderIndex = store[b].orderIndex /\ tie[a] < tie[b]

\* The index i of task id in the sorted result of its partition
SortedRank(store, tie, id) ==
  Cardinality({j \in Partition(store, store[id].createdBy, store[id].status) :
                 SortsBefore(store, tie, j, id)})

\* As RebalanceWrites, had the new orderIndex been i * SPACING
RebalanceWrites_FromZero(store, userId, status, tie) ==
  [id \in DOMAIN store |->
     IF /\ store[id].createdBy = userId
        /\ store[id].status \in RebalanceStatuses(store, userId, status)
       THEN [store[id] EXCEPT !.orderIndex = SortedRank(store, tie, id) * SPACING]
       ELSE store[id]]

\* As RebalanceWrites, had each write replaced the document by one holding
\* the new orderIndex and the defaults of the schema
RebalanceWrites_Replace(store, userId, status, tie) ==
  [id \in DOMAIN store |->
     IF /\ store[id].createdBy = userId
        /\ store[id].status \in RebalanceStatuses(store, userId, status)
       THEN [createdBy |-> NoUser, status |-> "todo",
             orderIndex |-> (SortedRank(store, tie, id) + 1) * SPACING]
       ELSE store[id]]

\* The loop over statuses: every task of a targeted partition gets (i + 1) * SPACING
RebalanceWrites(store, userId, status, tie) ==
  [id \in DOMAIN store |->
     IF /\ store[id].createdBy = userId
        /\ store[id].status \in RebalanceStatuses(store, userId, status)
       THEN [store[id] EXCEPT !.orderIndex = (SortedRank(store, tie, id) + 1) * SPACING]
       ELSE store[id]]

-----------------------------------------------------------------------------
(* The record of the last call (history, not program state) *)

\* Two tasks of a partition the call targets share an orderIndex
HasTies(store, userId, statuses) ==
  \E a, b \in DOMAIN store :
    /\ a # b
    /\ store[a].createdBy = userId /\ store[b].createdBy = userId
    /\ store[a].status = store[b].status /\ store[a].status \in statuses
    /\ store[a].orderIndex = store[b].orderIndex

\* op, the arguments, the outcome, the statement that failed (0: none) and the
\* collection before the call. streak counts the successful rebalance calls
\* with these same arguments that end with this one, up to 2; tied says whether
\* the first of them met equal orderIndex values. Both are 0/FALSE otherwise.
Call(op, userId, id, status, idx, err, failAt) ==
  [op |-> op, user |-> userId, id |-> id, status |-> status, idx |-> idx,
   err |-> err, failAt |-> failAt, pre |-> tasks, streak |-> 0, tied |-> FALSE]

RebalanceCall(userId, status) ==
  LET again == /\ last.op = "rebalance" /\ last.err = "ok"
               /\ last.user = userId /\ last.status = status
  IN [Call("rebalance", userId, NoId, status, 0, "ok", 0) EXCEPT
        !.streak = IF again THEN 2 ELSE 1,
        !.tied = IF again THEN last.tied
                 ELSE HasTies(tasks, userId, RebalanceStatuses(tasks, userId, status))]

\* A call of updateTaskOrder that has loaded its task (lines 154-161) and has
\* not yet run its transaction (lines 163-226): its arguments, the status and
\* the orderIndex it read, the collection it read them from, and the calls of
\* other requests that completed since (n of them, mid the latest).
\* phase is "none", "loaded" or, once the transaction has committed, "done".
NoFlight ==
  [phase |-> "none", id |-> NoId, user |-> NoUser, status |-> NoStatus, idx |-> 0,
   oldStatus |-> NoStatus, oldOrderIndex |-> 0, base |-> << >>, n |-> 0,
   mid |-> << >>]

\* No organization has been created
NoOrganization == [exists |-> FALSE, createdBy |-> NoUser, members |-> << >>, v |-> 0]

-----------------------------------------------------------------------------
(* The service calls *)

Init ==
  /\ tasks = << >>
  /\ nextId = 1
  /\ last = [op |-> "init", user |-> NoUser, id |-> NoId, status |-> NoStatus,
             idx |-> 0, err |-> "ok", failAt |-> 0, pre |-> << >>,
             streak |-> 0, tied |-> FALSE]
  /\ flight = NoFlight
  /\ calls = << >>
  /\ timeLogs = << >>
  /\ organization = NoOrganization

\* createTask(userId, {status}), lines 36-69; status may be omitted
createTask(userId, status) ==
  LET st == IF status # NoStatus THEN status ELSE "todo"
      orderIndex == AllocateOrderIndex(tasks, userId, st)
  IN /\ nextId <= MaxTasks
     /\ tasks' = [id \in DOMAIN tasks \cup {nextId} |->
                    IF id = nextId
                      THEN [createdBy |-> userId, status |-> st, orderIndex |-> orderIndex]
                      ELSE tasks[id]]
     /\ nextId' = nextId + 1
     /\ last' = Call("create", userId, nextId, st, orderIndex, "ok", 0)

\* As deleteTask, had the deletion closed the gap it leaves in the partition
deleteTask_Compacting(taskId, userId) ==
  LET found == taskId \in DOMAIN tasks /\ tasks[taskId].createdBy = userId
      above == MatchGt(tasks, userId, tasks[taskId].status, tasks[taskId].orderIndex)
      closed == UpdateManyInc(tasks, above, -SPACING)
  IN /\ tasks' = IF found THEN [id \in DOMAIN tasks \ {taskId} |-> closed[id]] ELSE tasks
     /\ last' = Call("delete", userId, taskId, NoStatus, 0,
                     IF found THEN "ok" ELSE "NotFound", 0)
     /\ UNCHANGED nextId

\* deleteTask(taskId, userId), lines 133-142
deleteTask(taskId, userId) ==
  LET found == taskId \in DOMAIN tasks /\ tasks[taskId].createdBy = userId
  IN /\ tasks' = IF found THEN [id \in DOMAIN tasks \ {taskId} |-> tasks[id]] ELSE tasks
     /\ last' = Call("delete", userId, taskId, NoStatus, 0,
                     IF found THEN "ok" ELSE "NotFound", 0)
     /\ UNCHANGED nextId

\* updateTaskOrder with the task looked up by _id alone
updateTaskOrder_AnyOwner(taskId, userId, newStatus, newOrderIndex, failAt) ==
  IF taskId \notin DOMAIN tasks
    THEN /\ failAt = 0
         /\ last' = Call("move", userId, taskId, NoStatus, 0, "NotFound", 0)
         /\ UNCHANGED <<tasks, nextId>>
    ELSE LET oldStatus == tasks[taskId].status
             oldOrderIndex == tasks[taskId].orderIndex
             n == NumShiftOps(oldStatus, oldOrderIndex, newStatus, newOrderIndex)
             View(k) == SessionAfter(tasks, k, taskId, userId, oldStatus,
                                     oldOrderIndex, newStatus, newOrderIndex)
         IN /\ failAt \in 0..(n + 1)
            /\ tasks' = IF failAt = 0
                          THEN commitTransaction(tasks, View(n + 1))
                          ELSE abortTransaction(tasks, View(failAt - 1))
            /\ last' = Call("move", userId, taskId, newStatus, newOrderIndex,
                            IF failAt = 0 THEN "ok" ELSE "StorageError", failAt)
            /\ UNCHANGED nextId

\* updateTaskOrder(taskId, userId, newStatus, newOrderIndex), lines 147-236.
\* failAt = 0: every statement succeeds; failAt = k: the k-th statement of the
\* transaction throws. A task that is missing or another user's is a 404
\* before the status and the orderIndex are looked at.
updateTaskOrder(taskId, userId, newStatus, newOrderIndex, failAt) ==
  IF ~(taskId \in DOMAIN tasks /\ tasks[taskId].createdBy = userId)
    THEN /\ failAt = 0
         /\ last' = Call("move", userId, taskId, NoStatus, 0, "NotFound", 0)
         /\ UNCHANGED <<tasks, nextId>>
    ELSE LET oldStatus == tasks[taskId].status
             oldOrderIndex == tasks[taskId].orderIndex
             n == NumShiftOps(oldStatus, oldOrderIndex, newStatus, newOrderIndex)
             View(k) == SessionAfter(tasks, k, taskId, userId, oldStatus,
                                     oldOrderIndex, newStatus, newOrderIndex)
         IN /\ failAt \in 0..(n + 1)
            /\ tasks' = IF failAt = 0
                          THEN commitTransaction(tasks, View(n + 1))
                          ELSE abortTransaction(tasks, View(failAt - 1))
            /\ last' = Call("move", userId, taskId, newStatus, newOrderIndex,
                            IF failAt = 0 THEN "ok" ELSE "StorageError", failAt)
            /\ UNCHANGED nextId

\* The collections a rebalance may leave, one per order of the tied documents
RebalanceOutcomes(store, userId, status) ==
  {RebalanceWrites(store, userId, status, tie) : tie \in TieOrders(store)}

\* rebalanceTaskOrder(userId, status?), lines 242-288
rebalanceTaskOrder(userId, status) ==
  /\ \E working \in RebalanceOutcomes(tasks, userId, status) :
       tasks' = commitTransaction(tasks, working)
  /\ last' = RebalanceCall(userId, status)
  /\ UNCHANGED nextId

\* The calls with their arguments drawn from the given sets
NextOver(U, S, I, F) ==
  \/ \E u \in U, s \in S \cup {NoStatus} : createTask(u, s) /\ UNCHANGED <<flight, services>>
  \/ \E t \in TaskIds, u \in U : deleteTask(t, u) /\ UNCHANGED <<flight, services>>
  \/ \E t \in TaskIds, u \in U, s \in S, i \in I, f \in F :
       updateTaskOrder(t, u, s, i, f) /\ UNCHANGED <<flight, services>>
  \/ \E u \in U, s \in S \cup {NoStatus} :
       rebalanceTaskOrder(u, s) /\ UNCHANGED <<flight, services>>

\* Two owners, target positions on the grid, no storage failure
Next == NextOver(Users, StatusInputs, OrderInputs, {0})

Spec == Init /\ [][Next]_vars

\* One owner, target positions off the grid, no storage failure
NextOff == NextOver({"u1"}, StatusInputs, OffGridInputs, {0})

SpecOff == Init /\ [][NextOff]_vars

\* Creation and deletion only: partitions that are never moved or rebalanced
NextAlloc ==
  \/ \E u \in Users, s \in StatusInputs \cup {NoStatus} :
       createTask(u, s) /\ UNCHANGED <<flight, services>>
  \/ \E t \in TaskIds, u \in Users : deleteTask(t, u) /\ UNCHANGED <<flight, services>>

SpecAlloc == Init /\ [][NextAlloc]_vars

\* One owner, any statement of a move's transaction may fail
NextFail == NextOver({"u1"}, StatusInputs, OrderInputs, 0..3)

SpecFail == Init /\ [][NextFail]_vars

-----------------------------------------------------------------------------
(* rebalanceTaskOrder with a statement that fails *)

\* The orders in which the loop may take the statuses: the array [status], or
\* the result of Task.distinct, whose order the query does not fix
StatusOrders(statuses) ==
  {o \in [statuses -> 1..Cardinality(statuses)] :
     \A s, t \in statuses : s # t => o[s] # o[t]}

\* The tasks the loop writes, and the place of a task's write among them: the
\* partitions of the statuses taken earlier come first, then the tasks of its
\* own partition that sort before it
RebalanceTargets(store, userId, status) ==
  {id \in DOMAIN store : /\ store[id].createdBy = userId
                         /\ store[id].status \in RebalanceStatuses(store, userId, status)}

WritePlace(store, userId, status, tie, order, id) ==
  Cardinality({j \in RebalanceTargets(store, userId, status) :
                 order[store[j].status] < order[store[id].status]})
  + SortedRank(store, tie, id) + 1

\* The session's view after the first `written` writes of the loop
RebalancePartial(store, userId, status, tie, order, written) ==
  [id \in DOMAIN store |->
     IF /\ id \in RebalanceTargets(store, userId, status)
        /\ WritePlace(store, userId, status, tie, order, id) <= written
       THEN RebalanceWrites(store, userId, status, tie)[id]
       ELSE store[id]]

\* As rebalanceTaskOrderAborted, had the writes not been given the session
rebalanceTaskOrderAborted_NoSession(userId, status, written) ==
  /\ written \in 0..Cardinality(RebalanceTargets(tasks, userId, status))
  /\ \E tie \in TieOrders(tasks),
        order \in StatusOrders(RebalanceStatuses(tasks, userId, status)) :
       tasks' = RebalancePartial(tasks, userId, status, tie, order, written)
  /\ last' = Call("rebalance", userId, NoId, status, 0, "StorageError", written + 1)
  /\ UNCHANGED nextId

\* rebalanceTaskOrder(userId, status?), lines 242-288, when a statement of
\* the transaction throws after `written` writes have succeeded (the next
\* write, the find of the next status, or the commit): the catch block aborts
\* the transaction and rethrows
rebalanceTaskOrderAborted(userId, status, written) ==
  /\ written \in 0..Cardinality(RebalanceTargets(tasks, userId, status))
  /\ \E tie \in TieOrders(tasks),
        order \in StatusOrders(RebalanceStatuses(tasks, userId, status)) :
       tasks' = abortTransaction(tasks, RebalancePartial(tasks, userId, status,
                                                         tie, order, written))
  /\ last' = Call("rebalance", userId, NoId, status, 0, "StorageError", written + 1)
  /\ UNCHANGED nextId

\* One owner; a rebalance may fail at any of its statements
NextRebalanceFail ==
  \/ NextOver({"u1"}, StatusInputs, OrderInputs, {0})
  \/ \E s \in StatusInputs \cup {NoStatus}, w \in 0..MaxTasks :
       rebalanceTaskOrderAborted("u1", s, w) /\ UNCHANGED <<flight, services>>

SpecRebalanceFail == Init /\ [][NextRebalanceFail]_vars

-----------------------------------------------------------------------------
(* Requests that overlap: updateTaskOrder in two steps *)

\* Calls of other requests that may complete between the load and the
\* transaction of the call in flight
MaxMeanwhile == 1

\* updateTaskOrder up to the start of its session, lines 154-164: the task is
\* read with findOne outside the session; a missing task is the 404 of
\* updateTaskOrder above and never gets here
loadTask(taskId, userId, newStatus, newOrderIndex) ==
  /\ flight.phase = "none"
  /\ taskId \in DOMAIN tasks /\ tasks[taskId].createdBy = userId
  /\ flight' = [phase |-> "loaded", id |-> taskId, user |-> userId,
                status |-> newStatus, idx |-> newOrderIndex,
                oldStatus |-> tasks[taskId].status,
                oldOrderIndex |-> tasks[taskId].orderIndex,
                base |-> tasks, n |-> 0, mid |-> << >>]
  /\ UNCHANGED <<tasks, nextId, last>>

\* The transaction of the call in flight, lines 166-226: the range shifts use
\* the oldStatus and oldOrderIndex of the load, findByIdAndUpdate selects by
\* _id, and whatever it returns the transaction is committed
runTransaction ==
  /\ flight.phase = "loaded"
  /\ LET n == NumShiftOps(flight.oldStatus, flight.oldOrderIndex,
                          flight.status, flight.idx)
         working == SessionAfter(tasks, n + 1, flight.id, flight.user,
                                 flight.oldStatus, flight.oldOrderIndex,
                                 flight.status, flight.idx)
     IN tasks' = commitTransaction(tasks, working)
  /\ last' = Call("move", flight.user, flight.id, flight.status, flight.idx, "ok", 0)
  /\ flight' = [flight EXCEPT !.phase = "done"]
  /\ UNCHANGED nextId

\* A whole call of another request (its record is last'), noted by the call in
\* flight if there is one. A run is followed up to the commit of the call in
\* flight.
Meanwhile ==
  /\ flight.phase # "done"
  /\ flight.phase = "loaded" => flight.n < MaxMeanwhile
  /\ flight' = IF flight.phase = "loaded"
                 THEN [flight EXCEPT !.n = @ + 1, !.mid = last']
                 ELSE NoFlight

\* Target positions of the calls that overlap
ConcOrderInputs == {1000, 3000}

\* One owner; a move may be overtaken by one whole call of another request
NextConc ==
  \/ \E s \in StatusInputs \cup {NoStatus} : createTask("u1", s) /\ Meanwhile /\ UNCHANGED services
  \/ \E t \in TaskIds : deleteTask(t, "u1") /\ Meanwhile /\ UNCHANGED services
  \/ \E t \in TaskIds, s \in StatusInputs, i \in ConcOrderInputs :
       updateTaskOrder(t, "u1", s, i, 0) /\ Meanwhile /\ UNCHANGED services
  \/ \E s \in StatusInputs \cup {NoStatus} : rebalanceTaskOrder("u1", s) /\ Meanwhile /\ UNCHANGED services
  \/ \E t \in TaskIds, s \in StatusInputs, i \in ConcOrderInputs :
       loadTask(t, "u1", s, i) /\ UNCHANGED services
  \/ runTransaction /\ UNCHANGED services

SpecConc == Init /\ [][NextConc]_vars

-----------------------------------------------------------------------------
(* The routes: validation chains and controllers in front of the service *)

\* Values a request may carry as orderIndex: an integer, a decimal (n is its
\* whole part, the fraction is .5), a text that is no number, or nothing
RawOrderInputs ==
  {[kind |-> "int", n |-> 1000], [kind |-> "int", n |-> 2000],
   [kind |-> "int", n |-> -1000], [kind |-> "dec", n |-> 2000],
   [kind |-> "text", n |-> 0], [kind |-> "absent", n |-> 0]}

\* Values a request may carry as status; NoStatus: the field is absent
RawStatusInputs == {"todo", "done", "bogus", NoStatus}

\* express-validator's notEmpty, isNumeric (an optional sign, digits, an
\* optional fraction), toInt (parseInt, which stops at the decimal point) and
\* isIn
notEmpty(raw) == raw.kind # "absent"
isNumeric(raw) == raw.kind \in {"int", "dec"}
toInt(raw) == raw.n
isIn(value, allowed) == value \in allowed

\* taskValidationRules.updateOrder
updateOrderRules(rawStatus, rawOrderIndex) ==
  /\ rawStatus # NoStatus /\ isIn(rawStatus, TaskStatus)
  /\ notEmpty(rawOrderIndex) /\ isNumeric(rawOrderIndex)

\* PATCH /api/tasks/:id/order: the chain updateOrder, then the controller,
\* which answers 400 on a validation error and otherwise calls the service
\* with the status and the sanitized orderIndex of the body
patchTaskOrder(taskId, userId, rawStatus, rawOrderIndex) ==
  IF ~updateOrderRules(rawStatus, rawOrderIndex)
    THEN /\ last' = Call("move", userId, taskId, rawStatus, 0, "Validation", 0)
         /\ UNCHANGED <<tasks, nextId>>
    ELSE updateTaskOrder(taskId, userId, rawStatus, toInt(rawOrderIndex), 0)

\* POST /api/tasks/rebalance: no validation chain; the controller hands the
\* status of the query string to the service as it is
postRebalance(userId, rawStatus) == rebalanceTaskOrder(userId, rawStatus)

\* One owner, requests through the routes
NextHttp ==
  \/ \E s \in StatusInputs : createTask("u1", s) /\ UNCHANGED <<flight, services>>
  \/ \E t \in TaskIds : deleteTask(t, "u1") /\ UNCHANGED <<flight, services>>
  \/ \E t \in TaskIds, s \in RawStatusInputs, i \in RawOrderInputs :
       patchTaskOrder(t, "u1", s, i) /\ UNCHANGED <<flight, services>>
  \/ \E s \in RawStatusInputs : postRebalance("u1", s) /\ UNCHANGED <<flight, services>>

SpecHttp == Init /\ [][NextHttp]_vars

-----------------------------------------------------------------------------
(* The general update of a task *)

\* Bodies of PATCH /api/tasks/:id, as far as the fields of the model go: a
\* status or none, an orderIndex or none (fields such as title change nothing
\* that is modelled)
UpdateBodies ==
  {[status |-> s, hasOrderIndex |-> FALSE, orderIndex |-> 0] :
     s \in {NoStatus, "todo", "done", "bogus"}}
  \cup {[status |-> NoStatus, hasOrderIndex |-> TRUE, orderIndex |-> 2000]}

\* taskValidationRules.update: the status is optional and must be in TaskStatus;
\* no rule names orderIndex
updateRules(body) == body.status = NoStatus \/ isIn(body.status, TaskStatus)

\* updateTask(taskId, userId, updates), lines 90-128: findOneAndUpdate of the
\* task of this user with every field of updates; runValidators checks the
\* status against the enum of the schema
updateTask(taskId, userId, updates) ==
  LET found == taskId \in DOMAIN tasks /\ tasks[taskId].createdBy = userId
      valid == updates.status \in TaskStatus \cup {NoStatus}
      err == IF ~valid THEN "Validation" ELSE IF ~found THEN "NotFound" ELSE "ok"
  IN /\ tasks' = IF err # "ok" THEN tasks
                  ELSE [tasks EXCEPT ![taskId] =
                          [@ EXCEPT !.status = IF updates.status # NoStatus
                                                 THEN updates.status ELSE @,
                                    !.orderIndex = IF updates.hasOrderIndex
                                                     THEN updates.orderIndex ELSE @]]
     /\ last' = Call("update", userId, taskId, updates.status,
                     IF updates.hasOrderIndex THEN updates.orderIndex ELSE 0, err, 0)
     /\ UNCHANGED nextId

\* PATCH /api/tasks/:id: the chain update, then the controller, which answers
\* 400 on a validation error and otherwise hands req.body to the service
patchTask(taskId, userId, body) ==
  IF ~updateRules(body)
    THEN /\ last' = Call("update", userId, taskId, body.status, 0, "Validation", 0)
         /\ UNCHANGED <<tasks, nextId>>
    ELSE updateTask(taskId, userId, body)

\* The highest orderIndex in the collection at which general updates are
\* still issued (an update that changes a status leaves a gap no move closes,
\* so updates and moves in turn push positions up without end)
MaxPosition == 3000

\* One owner: the service calls and the general update
NextUpdate ==
  \/ \E s \in StatusInputs : createTask("u1", s) /\ UNCHANGED <<flight, services>>
  \/ \E t \in TaskIds : deleteTask(t, "u1") /\ UNCHANGED <<flight, services>>
  \/ \E t \in TaskIds, s \in StatusInputs, i \in ConcOrderInputs :
       updateTaskOrder(t, "u1", s, i, 0) /\ UNCHANGED <<flight, services>>
  \/ \E s \in StatusInputs \cup {NoStatus} :
       rebalanceTaskOrder("u1", s) /\ UNCHANGED <<flight, services>>
  \/ \E t \in TaskIds, b \in UpdateBodies :
       /\ \A id \in DOMAIN tasks : tasks[id].orderIndex \in 0..MaxPosition
       /\ patchTask(t, "u1", b) /\ UNCHANGED <<flight, services>>

SpecUpdate == Init /\ [][NextUpdate]_vars

-----------------------------------------------------------------------------
(* Vocabulary of the properties *)

Created == last.op = "create" /\ last.err = "ok"
MovedOk == last.op = "move" /\ last.err = "ok"
Rebalanced == last.op = "rebalance" /\ last.err = "ok"

\* The orderIndex values held in a partition
Positions(store, userId, status) ==
  {store[id].orderIndex : id \in Partition(store, userId, status)}

-----------------------------------------------------------------------------
(* C1: createTask gives the new task the partition's highest orderIndex plus
   1000, and exactly 1000 when the partition was empty; the task is stored
   under the caller and the requested status. *)
C1_AllocateAtEnd ==
  Created =>
    LET before == Positions(last.pre, last.user, last.status)
        new == tasks[last.id]
    IN /\ last.id \notin DOMAIN last.pre
       /\ new.createdBy = last.user /\ new.status = last.status
       /\ new.orderIndex = last.idx
       /\ before = {} => new.orderIndex = 1000
       /\ before # {} =>
            /\ new.orderIndex - 1000 \in before
            /\ \A p \in before : p <= new.orderIndex - 1000

\* Scenario A's second call: a partition holding one task at 1000 receives 2000
C1_Witness ==
  /\ Created
  /\ Positions(last.pre, last.user, last.status) = {1000}
  /\ tasks[last.id].orderIndex = 2000

(* C2: in a partition that only ever sees createTask (and deleteTask), a task
   created later has a strictly larger orderIndex than every task created
   earlier; task ids grow with creation time. *)
C2_CreationOrder ==
  \A a, b \in DOMAIN tasks :
    (/\ a < b
     /\ tasks[a].createdBy = tasks[b].createdBy
     /\ tasks[a].status = tasks[b].status)
    => tasks[a].orderIndex < tasks[b].orderIndex

\* Three tasks created in turn into one partition
C2_Witness ==
  /\ Created
  /\ Cardinality(Partition(tasks, last.user, last.status)) = 3

(* C3: a successful updateTaskOrder takes exactly one task out of the source
   partition and puts exactly one into the destination partition when the
   status changes, leaves both counts alone when it does not, and never
   changes the number of tasks. *)
C3_MoveCounts ==
  MovedOk =>
    LET oldStatus == last.pre[last.id].status
        Count(store, status) == Cardinality(Partition(store, last.user, status))
    IN /\ Cardinality(DOMAIN tasks) = Cardinality(DOMAIN last.pre)
       /\ last.status # oldStatus =>
            /\ Count(tasks, oldStatus) = Count(last.pre, oldStatus) - 1
            /\ Count(tasks, last.status) = Count(last.pre, last.status) + 1
       /\ last.status = oldStatus =>
            Count(tasks, oldStatus) = Count(last.pre, oldStatus)

\* A task has moved from a partition of two into a partition of one
C3_Witness ==
  /\ MovedOk
  /\ last.status # last.pre[last.id].status
  /\ Cardinality(Partition(last.pre, last.user, last.pre[last.id].status)) = 2
  /\ Cardinality(Partition(tasks, last.user, last.status)) = 2

\* The move's target partition held pairwise distinct multiples of 1000 and
\* none of them was the multiple of 1000 the caller asked for
WellFormedMove ==
  LET target == Partition(last.pre, last.user, last.status)
  IN /\ MovedOk
     /\ last.idx % 1000 = 0
     /\ \A a \in target : last.pre[a].orderIndex % 1000 = 0
     /\ \A a \in target : last.pre[a].orderIndex # last.idx
     /\ \A a, b \in target : a # b => last.pre[a].orderIndex # last.pre[b].orderIndex

(* C4: after a well-formed move (target partition on the grid without
   duplicates, requested slot a free multiple of 1000) no two tasks of the
   target partition share an orderIndex, same-status or cross-status. *)
C4_NoCollision ==
  WellFormedMove =>
    \A a, b \in Partition(tasks, last.user, last.status) :
      a # b => tasks[a].orderIndex # tasks[b].orderIndex

\* A well-formed move that had to shift another task of the target partition
C4_Witness ==
  /\ WellFormedMove
  /\ Cardinality(Partition(tasks, last.user, last.status)) = 3
  /\ \E a \in Partition(last.pre, last.user, last.status) :
       a # last.id /\ tasks[a].orderIndex # last.pre[a].orderIndex

(* C8: a successful cross-status move adds 1000 to every task of the owner in
   the new status that was at or after the requested orderIndex, takes 1000
   from every task of the owner in the old status that was after the moved
   task, puts the moved task at the requested status and orderIndex, and
   changes nothing else. *)
C8_CrossStatusMove ==
  (MovedOk /\ last.status # last.pre[last.id].status) =>
    LET old == last.pre[last.id]
    IN /\ DOMAIN tasks = DOMAIN last.pre
       /\ \A t \in DOMAIN last.pre :
            LET was == last.pre[t]
            IN IF t = last.id
                 THEN tasks[t] = [was EXCEPT !.status = last.status,
                                             !.orderIndex = last.idx]
               ELSE IF /\ was.createdBy = last.user /\ was.status = last.status
                       /\ was.orderIndex >= last.idx
                 THEN tasks[t] = [was EXCEPT !.orderIndex = was.orderIndex + 1000]
               ELSE IF /\ was.createdBy = last.user /\ was.status = old.status
                       /\ was.orderIndex > old.orderIndex
                 THEN tasks[t] = [was EXCEPT !.orderIndex = was.orderIndex - 1000]
               ELSE tasks[t] = was

\* A cross-status move that made room in the new status and closed a gap in the old
C8_Witness ==
  /\ MovedOk
  /\ last.status # last.pre[last.id].status
  /\ \E a, b \in DOMAIN last.pre \ {last.id} :
       /\ last.pre[a].status = last.status
       /\ tasks[a].orderIndex = last.pre[a].orderIndex + 1000
       /\ last.pre[b].status = last.pre[last.id].status
       /\ tasks[b].orderIndex = last.pre[b].orderIndex - 1000

(* C5: after rebalanceTaskOrder(owner, status) the partition's n tasks hold
   exactly 1000, 2000, ..., n * 1000, one each, whatever they held before
   (duplicates, negative or off-grid values included). *)
C5_CanonicalSpacing ==
  (Rebalanced /\ last.status # NoStatus) =>
    LET part == Partition(tasks, last.user, last.status)
    IN /\ part = Partition(last.pre, last.user, last.status)
       /\ Positions(tasks, last.user, last.status) =
            {1000 * k : k \in 1..Cardinality(part)}

\* Three tasks, two of them tied and one below zero, have been re-numbered
C5_Witness ==
  /\ Rebalanced /\ last.status # NoStatus
  /\ Cardinality(Partition(last.pre, last.user, last.status)) = 3
  /\ Cardinality(Positions(last.pre, last.user, last.status)) = 2
  /\ \E p \in Positions(last.pre, last.user, last.status) : p < 0

(* C6: a rebalanceTaskOrder call that directly follows a successful call with
   the same arguments leaves every task exactly as the first call left it,
   also when the first call met tasks with equal orderIndex. *)
C6_RebalanceIdempotent ==
  (Rebalanced /\ last.streak = 2) => tasks = last.pre

\* The second of two calls in a row, the first of which met a tie
C6_Witness ==
  /\ Rebalanced /\ last.streak = 2 /\ last.tied
  /\ last.status # NoStatus
  /\ Cardinality(Partition(tasks, last.user, last.status)) = 3

(* C7: rebalanceTaskOrder keeps the relative order of any two tasks of a
   partition it re-numbers: the one with the smaller orderIndex before has
   the smaller orderIndex after. *)
C7_RebalanceKeepsOrder ==
  Rebalanced =>
    \A a, b \in DOMAIN last.pre :
      (/\ last.pre[a].createdBy = last.user /\ last.pre[b].createdBy = last.user
       /\ last.pre[a].status = last.pre[b].status
       /\ last.status \in {NoStatus, last.pre[a].status}
       /\ last.pre[a].orderIndex < last.pre[b].orderIndex)
      => tasks[a].orderIndex < tasks[b].orderIndex

\* Three irregular positions whose order is not the creation order become
\* 1000, 2000, 3000 with the same task in each rank (Scenario D)
C7_Witness ==
  /\ Rebalanced
  /\ \E a, b, c \in DOMAIN last.pre :
       /\ a > b
       /\ last.pre[a].status = last.pre[b].status
       /\ last.pre[b].status = last.pre[c].status
       /\ last.pre[a].orderIndex < last.pre[b].orderIndex
       /\ last.pre[b].orderIndex < last.pre[c].orderIndex
       /\ last.pre[a].orderIndex % 1000 # 0
       /\ tasks[a].orderIndex = 1000
       /\ tasks[b].orderIndex = 2000
       /\ tasks[c].orderIndex = 3000

(* C9: a successful same-status reorder adds 1000 to exactly the other tasks
   of the partition in [new, old) when moving up, takes 1000 from exactly the
   other tasks in (old, new] when moving down, shifts nothing when the
   position is unchanged, puts the moved task at the requested orderIndex,
   and its range update never touches the moved task. *)
C9_SameStatusReorder ==
  (MovedOk /\ last.status = last.pre[last.id].status) =>
    LET old == last.pre[last.id].orderIndex
        new == last.idx
    IN /\ DOMAIN tasks = DOMAIN last.pre
       /\ FirstShift(last.pre, last.user, last.status, old, last.status, new)[last.id]
            = last.pre[last.id]
       /\ \A t \in DOMAIN last.pre :
            LET was == last.pre[t]
                inPartition == was.createdBy = last.user /\ was.status = last.status
            IN IF t = last.id
                 THEN tasks[t] = [was EXCEPT !.orderIndex = new]
               ELSE IF inPartition /\ new < old
                       /\ new <= was.orderIndex /\ was.orderIndex < old
                 THEN tasks[t] = [was EXCEPT !.orderIndex = was.orderIndex + 1000]
               ELSE IF inPartition /\ new > old
                       /\ old < was.orderIndex /\ was.orderIndex <= new
                 THEN tasks[t] = [was EXCEPT !.orderIndex = was.orderIndex - 1000]
               ELSE tasks[t] = was

\* Scenario B: of A, B, C at 1000, 2000, 3000, B has moved to 3500: C is now
\* at 2000 and A still at 1000
C9_Witness ==
  /\ MovedOk /\ last.status = last.pre[last.id].status
  /\ last.pre[last.id].orderIndex = 2000 /\ last.idx = 3500
  /\ \E a, c \in DOMAIN last.pre \ {last.id} :
       /\ last.pre[a].status = last.status /\ last.pre[c].status = last.status
       /\ last.pre[a].orderIndex = 1000 /\ tasks[a].orderIndex = 1000
       /\ last.pre[c].orderIndex = 3000 /\ tasks[c].orderIndex = 2000
  /\ tasks[last.id].orderIndex = 3500

(* C10: when a statement of updateTaskOrder's transaction fails (either
   updateMany or the task's own update) the call ends with the error and the
   collection is exactly what it was before the call. *)
C10_MoveFailureAtomic ==
  (last.op = "move" /\ last.failAt # 0) =>
    /\ last.err = "StorageError"
    /\ tasks = last.pre

\* The task's own update failed after both range updates had shifted tasks
C10_Witness ==
  /\ last.op = "move" /\ last.failAt = 3
  /\ LET old == last.pre[last.id]
         s1 == SessionAfter(last.pre, 1, last.id, last.user, old.status,
                            old.orderIndex, last.status, last.idx)
         s2 == SessionAfter(last.pre, 2, last.id, last.user, old.status,
                            old.orderIndex, last.status, last.idx)
     IN s1 # last.pre /\ s2 # s1

-----------------------------------------------------------------------------
(* C11: a move commits its range shifts only together with the write of the *)
(* moved task: whenever a committed updateTaskOrder has changed some other  *)
(* task, the moved task exists and holds the requested status and           *)
(* orderIndex -- also when a deleteTask of the moved task completed between *)
(* the move's load and its transaction.                                     *)
C11_ShiftsOnlyWithOwnWrite ==
  (/\ MovedOk
   /\ \E id \in DOMAIN tasks \ {last.id} : tasks[id] # last.pre[id])
  => /\ last.id \in DOMAIN tasks
     /\ tasks[last.id].status = last.status
     /\ tasks[last.id].orderIndex = last.idx

-----------------------------------------------------------------------------
(* Serial executions, the yardstick of the overlapping ones *)

\* The collection a whole updateTaskOrder call leaves when nothing fails and no
\* other request runs during it (lines 147-226)
MoveResult(store, taskId, userId, newStatus, newOrderIndex) ==
  IF ~(taskId \in DOMAIN store /\ store[taskId].createdBy = userId)
    THEN store
    ELSE LET oldStatus == store[taskId].status
             oldOrderIndex == store[taskId].orderIndex
             n == NumShiftOps(oldStatus, oldOrderIndex, newStatus, newOrderIndex)
         IN SessionAfter(store, n + 1, taskId, userId, oldStatus, oldOrderIndex,
                         newStatus, newOrderIndex)

\* The call in flight has committed after exactly one call of another request,
\* a successful op of the same user, completed between its load and its
\* transaction
Overtaken(op) ==
  /\ flight.phase = "done" /\ flight.n = 1
  /\ flight.mid.op = op /\ flight.mid.err = "ok" /\ flight.mid.user = flight.user

\* The statuses whose partitions the committed call in flight read or wrote
FlightStatuses == {flight.oldStatus, flight.status}

(* C12: two overlapping updateTaskOrder calls of one owner that touch a     *)
(* common partition are serializable: the collection they leave is the one  *)
(* left by running the two calls one after the other in some order (which   *)
(* is what shifting by the moved task's oldStatus/oldOrderIndex of the time *)
(* of the shifts would give).                                               *)
C12_ConcurrentMovesSerializable ==
  LET base == flight.base
      b == flight.mid
      A(store) == MoveResult(store, flight.id, flight.user, flight.status, flight.idx)
      B(store) == MoveResult(store, b.id, b.user, b.status, b.idx)
  IN (/\ Overtaken("move")
      /\ FlightStatuses \cap {base[b.id].status, b.status} # {})
     => tasks \in {B(A(base)), A(B(base))}

(* C13: an updateTaskOrder call and a rebalanceTaskOrder call of one owner  *)
(* that overlap on a partition leave the collection that one of the two     *)
(* serial orders leaves (the move then the rebalance, or the rebalance then *)
(* the move): a move never shifts by positions a committed rebalance has    *)
(* rewritten since the move read them.                                      *)
C13_MoveRebalanceSerializable ==
  LET base == flight.base
      r == flight.mid
      A(store) == MoveResult(store, flight.id, flight.user, flight.status, flight.idx)
      R(store) == RebalanceOutcomes(store, r.user, r.status)
  IN (/\ Overtaken("rebalance")
      /\ FlightStatuses \cap RebalanceStatuses(base, r.user, r.status) # {})
     => tasks \in R(A(base)) \cup {A(store) : store \in R(base)}

-----------------------------------------------------------------------------
(* C14: updateTaskOrder on an id that is no task, or on a task of another   *)
(* user, fails with the 404 before any statement of a transaction has run,  *)
(* and no task is changed.                                                  *)
C14_MoveNotFound ==
  LET owned == /\ last.id \in DOMAIN last.pre
               /\ last.pre[last.id].createdBy = last.user
  IN (last.op = "move" /\ ~owned)
     => /\ last.err = "NotFound"
        /\ last.failAt = 0
        /\ tasks = last.pre

\* A user who has a task of their own asked to move another user's task
C14_Witness ==
  /\ last.op = "move" /\ last.err = "NotFound"
  /\ last.id \in DOMAIN last.pre
  /\ last.pre[last.id].createdBy # last.user
  /\ Cardinality(DOMAIN tasks) = 3
  /\ \E id \in DOMAIN tasks : tasks[id].createdBy = last.user

-----------------------------------------------------------------------------
(* C15: a move whose target position is negative is rejected with an       *)
(* invalid-argument error and changes no task: no accepted PATCH            *)
(* /api/tasks/:id/order gives a task a negative newOrderIndex.              *)
C15_NegativeTargetRejected ==
  MovedOk => /\ last.idx >= 0
             /\ tasks[last.id].orderIndex >= 0

(* C16: every route that takes a status -- PATCH /api/tasks/:id/order in    *)
(* its body, POST /api/tasks/rebalance optionally in its query -- rejects a *)
(* value outside TaskStatus with an invalid-argument error and leaves all   *)
(* tasks unchanged.                                                         *)
C16_StatusValidated ==
  /\ (last.op = "move" /\ last.err \notin {"Validation", "NotFound"})
       => last.status \in TaskStatus
  /\ (last.op = "move" /\ last.err = "Validation") => tasks = last.pre
  /\ (last.op = "rebalance" /\ last.status \notin TaskStatus \cup {NoStatus})
       => /\ last.err = "Validation"
          /\ tasks = last.pre

-----------------------------------------------------------------------------
(* C17: the status of an existing task is changed only by updateTaskOrder:  *)
(* no other operation (createTask, updateTask, deleteTask,                  *)
(* rebalanceTaskOrder) changes the status of a task that exists before and  *)
(* after it.                                                                *)
C17_StatusOnlyByMove ==
  last.op # "move"
  => \A id \in DOMAIN tasks \cap DOMAIN last.pre :
       tasks[id].status = last.pre[id].status

(* C18: the orderIndex of a task is set at its creation and afterwards      *)
(* changed only by updateTaskOrder or rebalanceTaskOrder: updateTask and    *)
(* every other operation leave the orderIndex of existing tasks unchanged.  *)
C18_OrderIndexOnlyByMoveOrRebalance ==
  last.op \notin {"move", "rebalance"}
  => \A id \in DOMAIN tasks \cap DOMAIN last.pre :
       tasks[id].orderIndex = last.pre[id].orderIndex

-----------------------------------------------------------------------------
(* C19: under createTask, updateTaskOrder, rebalanceTaskOrder and           *)
(* deleteTask an existing task keeps its id and its createdBy; a move       *)
(* writes only the status and orderIndex of the moved task and only the     *)
(* orderIndex of the tasks it shifts; a rebalance writes only orderIndex.   *)
C19_IdentityAndOwnerKept ==
  /\ \A id \in DOMAIN tasks \cap DOMAIN last.pre :
       tasks[id].createdBy = last.pre[id].createdBy
  /\ DOMAIN tasks \subseteq DOMAIN last.pre \cup {last.id}
  /\ last.op \in {"move", "rebalance"} => DOMAIN tasks = DOMAIN last.pre
  /\ last.op = "move"
       => \A id \in DOMAIN tasks \ {last.id} : tasks[id].status = last.pre[id].status
  /\ last.op = "rebalance"
       => \A id \in DOMAIN tasks : tasks[id].status = last.pre[id].status

\* A rebalance rewrote the orderIndex of a task while both users own tasks,
\* one of them outside the status "todo"
C19_Witness ==
  /\ Rebalanced
  /\ \E id \in DOMAIN tasks : tasks[id].orderIndex # last.pre[id].orderIndex
  /\ \E id \in DOMAIN tasks : tasks[id].createdBy = last.user /\ tasks[id].status # "todo"
  /\ {tasks[id].createdBy : id \in DOMAIN tasks} = Users

(* C20: a successful deleteTask removes exactly the task it names and       *)
(* leaves the status and orderIndex of every other task as they were (no    *)
(* compaction); deleteTask on an id that is no task, or on a task of        *)
(* another user, fails with the 404 and changes nothing.                    *)
C20_DeleteExactlyOne ==
  LET owned == /\ last.id \in DOMAIN last.pre
               /\ last.pre[last.id].createdBy = last.user
  IN last.op = "delete"
     => IF owned
          THEN /\ last.err = "ok"
               /\ DOMAIN tasks = DOMAIN last.pre \ {last.id}
               /\ \A id \in DOMAIN tasks : tasks[id] = last.pre[id]
          ELSE /\ last.err = "NotFound"
               /\ tasks = last.pre

\* A task was deleted from below another task of its partition, which stays
\* where it was
C20_Witness ==
  /\ last.op = "delete" /\ last.err = "ok"
  /\ \E id \in DOMAIN tasks :
       /\ tasks[id].createdBy = last.user
       /\ tasks[id].status = last.pre[last.id].status
       /\ tasks[id].orderIndex > last.pre[last.id].orderIndex

-----------------------------------------------------------------------------
(* C21: rebalanceTaskOrder(owner) re-numbers every partition in which the   *)
(* owner has a task, rebalanceTaskOrder(owner, status) only that partition; *)
(* every task outside the targeted partitions -- other statuses of the      *)
(* owner, all tasks of other owners -- is left as it was.                   *)
C21_RebalanceScope ==
  LET targeted(id) == /\ last.pre[id].createdBy = last.user
                      /\ last.status \in {NoStatus, last.pre[id].status}
  IN Rebalanced
     => /\ DOMAIN tasks = DOMAIN last.pre
        /\ \A id \in DOMAIN tasks :
             IF targeted(id)
               THEN Positions(tasks, last.user, tasks[id].status)
                      = {k * SPACING :
                           k \in 1..Cardinality(Partition(tasks, last.user, tasks[id].status))}
               ELSE tasks[id] = last.pre[id]

\* A rebalance of one status re-numbered it while another partition of the
\* same owner and a partition of the other owner keep a first position that
\* is not 1000
C21_Witness ==
  /\ Rebalanced /\ last.status # NoStatus
  /\ tasks # last.pre
  /\ \E id \in DOMAIN tasks :
       /\ tasks[id].createdBy = last.user
       /\ tasks[id].status # last.status
       /\ tasks[id].orderIndex # SPACING
  /\ \E id \in DOMAIN tasks :
       /\ tasks[id].createdBy # last.user
       /\ tasks[id].status = last.status
       /\ tasks[id].orderIndex # SPACING

-----------------------------------------------------------------------------
(* C22: rebalanceTaskOrder breaks ties of orderIndex by a stable secondary  *)
(* key (the creation time, as the listing does), so the collection before   *)
(* the call determines the new position of every task: a rebalance has one  *)
(* possible outcome, the one that ranks tied tasks by creation.             *)
C22_RebalanceDeterministic ==
  Rebalanced
  => /\ RebalanceOutcomes(last.pre, last.user, last.status) = {tasks}
     /\ \A a, b \in DOMAIN tasks :
          (/\ last.pre[a].createdBy = last.user /\ last.pre[b].createdBy = last.user
           /\ last.pre[a].status = last.pre[b].status
           /\ last.pre[a].status \in RebalanceStatuses(last.pre, last.user, last.status)
           /\ last.pre[a].orderIndex = last.pre[b].orderIndex
           /\ a < b)
          => tasks[a].orderIndex < tasks[b].orderIndex

-----------------------------------------------------------------------------
(* C23: if a statement of rebalanceTaskOrder's transaction fails, in any of *)
(* the statuses being processed, the transaction is aborted, the error goes *)
(* to the caller and no task keeps an orderIndex written by the call: no    *)
(* partition is left with only some of its tasks re-numbered.               *)
C23_RebalanceFailureAtomic ==
  (last.op = "rebalance" /\ last.err # "ok")
  => /\ last.err = "StorageError"
     /\ tasks = last.pre

\* A rebalance failed after at least one write that had changed an orderIndex
C23_Witness ==
  /\ last.op = "rebalance" /\ last.err = "StorageError"
  /\ last.failAt >= 2
  /\ \A id \in RebalanceTargets(last.pre, last.user, last.status) :
       \A out \in RebalanceOutcomes(last.pre, last.user, last.status) :
         out[id].orderIndex # last.pre[id].orderIndex

-----------------------------------------------------------------------------
(* Requests that overlap: two updateTaskOrder calls, statement by statement *)

\* The requests that may be in progress together
Requests == {1, 2}

\* The statements of a call's transaction: its range shifts, then its own write
MoveStatements(c) ==
  NumShiftOps(c.oldStatus, c.oldOrderIndex, c.status, c.idx) + 1

\* What the session of call c sees after its first k statements: the snapshot
\* its first statement opened, with its own writes
MoveView(c, k) ==
  SessionAfter(c.snap, k, c.id, c.user, c.oldStatus, c.oldOrderIndex, c.status, c.idx)

\* The documents statement k of call c writes, and those its first k
\* statements have written
StatementWrites(c, k) ==
  {id \in DOMAIN c.snap : MoveView(c, k)[id] # MoveView(c, k - 1)[id]}
  \cup (IF k = MoveStatements(c) THEN {c.id} \cap DOMAIN c.snap ELSE {})

RECURSIVE SessionWrites(_, _)
SessionWrites(c, k) ==
  IF k = 0 THEN {} ELSE SessionWrites(c, k - 1) \cup StatementWrites(c, k)

\* updateTaskOrder up to the start of its session, lines 154-164, as request r
moveLoad(r, taskId, userId, newStatus, newOrderIndex) ==
  /\ r \notin DOMAIN calls
  /\ r = 2 => 1 \in DOMAIN calls
  /\ taskId \in DOMAIN tasks /\ tasks[taskId].createdBy = userId
  /\ calls' = [q \in DOMAIN calls \cup {r} |->
                 IF q = r
                   THEN [op |-> "move", user |-> userId, id |-> taskId,
                         status |-> newStatus, idx |-> newOrderIndex,
                         oldStatus |-> tasks[taskId].status,
                         oldOrderIndex |-> tasks[taskId].orderIndex,
                         pc |-> 0, snap |-> << >>, base |-> tasks, err |-> "running"]
                   ELSE calls[q]]
  /\ UNCHANGED <<tasks, nextId, last>>

\* The next statement of request r's transaction, lines 166-223. The first
\* statement opens the snapshot. A statement that writes a document another
\* transaction has written since the snapshot, or has written and not yet
\* committed, throws a write conflict: the catch block aborts and rethrows.
moveStatement(r) ==
  /\ r \in DOMAIN calls /\ calls[r].err = "running"
  /\ calls[r].pc < MoveStatements(calls[r])
  /\ LET c == IF calls[r].pc = 0 THEN [calls[r] EXCEPT !.snap = tasks] ELSE calls[r]
         k == c.pc + 1
         others == {q \in DOMAIN calls \ {r} : calls[q].err = "running" /\ calls[q].pc > 0}
         conflict == \E id \in StatementWrites(c, k) :
                       \/ tasks[id] # c.snap[id]
                       \/ \E q \in others : id \in SessionWrites(calls[q], calls[q].pc)
     IN IF conflict
          THEN /\ calls' = [calls EXCEPT ![r] = [c EXCEPT !.err = "WriteConflict"]]
               /\ last' = Call("move", c.user, c.id, c.status, c.idx, "WriteConflict", k)
          ELSE /\ calls' = [calls EXCEPT ![r] = [c EXCEPT !.pc = k]]
               /\ UNCHANGED last
  /\ UNCHANGED <<tasks, nextId>>

\* commitTransaction of request r, line 226: its writes reach the collection
moveCommit(r) ==
  /\ r \in DOMAIN calls /\ calls[r].err = "running"
  /\ calls[r].pc = MoveStatements(calls[r])
  /\ LET c == calls[r]
         written == SessionWrites(c, c.pc)
     IN /\ tasks' = commitTransaction(tasks,
                      [id \in DOMAIN tasks |->
                         IF id \in written THEN MoveView(c, c.pc)[id] ELSE tasks[id]])
        /\ last' = Call("move", c.user, c.id, c.status, c.idx, "ok", 0)
        /\ calls' = [calls EXCEPT ![r].err = "ok"]
  /\ UNCHANGED nextId

\* Tasks are created while no move is in progress; then up to two moves run
\* together, any statement of one between any two of the other
NextPair ==
  \/ \E u \in Users, s \in StatusInputs :
       calls = << >> /\ createTask(u, s) /\ UNCHANGED <<flight, services>>
  \/ \E r \in Requests, t \in TaskIds, u \in Users, s \in StatusInputs,
        i \in ConcOrderInputs :
       moveLoad(r, t, u, s, i) /\ UNCHANGED <<flight, timeLogs, organization>>
  \/ \E r \in Requests : moveStatement(r) /\ UNCHANGED <<flight, timeLogs, organization>>
  \/ \E r \in Requests : moveCommit(r) /\ UNCHANGED <<flight, timeLogs, organization>>

SpecPair == Init /\ [][NextPair]_vars

-----------------------------------------------------------------------------
\* The partitions, (owner, status), a move in progress reads and writes
MovePartitions(c) == {<<c.user, c.oldStatus>>, <<c.user, c.status>>}

\* Both requests have loaded their task and they share no partition
DisjointPair ==
  /\ DOMAIN calls = Requests
  /\ MovePartitions(calls[1]) \cap MovePartitions(calls[2]) = {}

(* C24: two updateTaskOrder calls whose source and destination partitions   *)
(* are pairwise disjoint (another owner or other statuses) never wait on    *)
(* each other and commute: whatever the interleaving of their statements,   *)
(* each can always take its next step, both complete, and the collection    *)
(* they leave is the one left by running them one after the other, in       *)
(* either order.                                                            *)
C24_DisjointMovesCommute ==
  LET a == calls[1]
      b == calls[2]
      A(store) == MoveResult(store, a.id, a.user, a.status, a.idx)
      B(store) == MoveResult(store, b.id, b.user, b.status, b.idx)
  IN DisjointPair
     => /\ \A r \in Requests :
             /\ calls[r].err \in {"running", "ok"}
             /\ calls[r].err = "running" => ENABLED (moveStatement(r) \/ moveCommit(r))
        /\ (a.err = "ok" /\ b.err = "ok")
             => /\ tasks = B(A(a.base))
                /\ tasks = A(B(a.base))

\* Two moves that share no partition have both committed; each opened its
\* snapshot before the other committed, and a task other than the two moved
\* ones was shifted
C24_Witness ==
  /\ DisjointPair
  /\ calls[1].err = "ok" /\ calls[2].err = "ok"
  /\ calls[1].snap = calls[1].base /\ calls[2].snap = calls[1].base
  /\ \E id \in DOMAIN tasks \ {calls[1].id, calls[2].id} : tasks[id] # calls[1].base[id]
  /\ tasks[calls[1].id] # calls[1].base[calls[1].id]
  /\ tasks[calls[2].id] # calls[1].base[calls[2].id]

-----------------------------------------------------------------------------
(* Requests that overlap: two createTask calls *)

\* createTask up to the computation of orderIndex, lines 49-57, as request r:
\* the highest orderIndex of the partition is read and 1000 added
createRead(r, userId, status) ==
  LET st == IF status # NoStatus THEN status ELSE "todo"
      reading == {q \in DOMAIN calls : calls[q].err = "running"}
  IN /\ r \notin DOMAIN calls
     /\ r = 2 => 1 \in DOMAIN calls
     /\ nextId + Cardinality(reading) <= MaxTasks
     /\ calls' = [q \in DOMAIN calls \cup {r} |->
                    IF q = r
                      THEN [op |-> "create", user |-> userId, id |-> NoId, status |-> st,
                            idx |-> AllocateOrderIndex(tasks, userId, st),
                            base |-> tasks, err |-> "running"]
                      ELSE calls[q]]
     /\ UNCHANGED <<tasks, nextId, last>>

\* Task.create of request r, lines 60-66, with the orderIndex computed before
createInsert(r) ==
  /\ r \in DOMAIN calls /\ calls[r].op = "create" /\ calls[r].err = "running"
  /\ tasks' = [id \in DOMAIN tasks \cup {nextId} |->
                 IF id = nextId
                   THEN [createdBy |-> calls[r].user, status |-> calls[r].status,
                         orderIndex |-> calls[r].idx]
                   ELSE tasks[id]]
  /\ nextId' = nextId + 1
  /\ last' = Call("create", calls[r].user, nextId, calls[r].status, calls[r].idx, "ok", 0)
  /\ calls' = [calls EXCEPT ![r].err = "ok", ![r].id = nextId]

\* Tasks are created and deleted while no other call is in progress; then up
\* to two createTask calls run together
NextCreate ==
  \/ \E u \in Users, s \in StatusInputs \cup {NoStatus} :
       calls = << >> /\ createTask(u, s) /\ UNCHANGED <<flight, services>>
  \/ \E t \in TaskIds, u \in Users :
       calls = << >> /\ deleteTask(t, u) /\ UNCHANGED <<flight, services>>
  \/ \E r \in Requests, u \in Users, s \in StatusInputs \cup {NoStatus} :
       createRead(r, u, s) /\ UNCHANGED <<flight, timeLogs, organization>>
  \/ \E r \in Requests : createInsert(r) /\ UNCHANGED <<flight, timeLogs, organization>>

SpecCreate == Init /\ [][NextCreate]_vars

(* C30: when two createTask calls of one owner for one status run together, *)
(* each reading the highest orderIndex and then inserting, the two tasks    *)
(* they create get different orderIndex values.                             *)
C30_ConcurrentCreateDistinct ==
  (/\ DOMAIN calls = Requests
   /\ \A r \in Requests : calls[r].op = "create" /\ calls[r].err = "ok"
   /\ calls[1].user = calls[2].user /\ calls[1].status = calls[2].status)
  => calls[1].idx # calls[2].idx

-----------------------------------------------------------------------------
(* TimeLogService: timers *)

\* Most time logs the collection holds
MaxLogs == 4

\* The time logs of a user with isActive true
ActiveTimers(logs, userId) ==
  {i \in DOMAIN logs : logs[i].user = userId /\ logs[i].isActive}

\* TimeLog.create: a further document
CreateTimeLog(logs, userId, isActive) ==
  Append(logs, [user |-> userId, isActive |-> isActive])

\* The calls in progress and the documents together stay within MaxLogs
RoomForLog ==
  Len(timeLogs) + Cardinality({q \in DOMAIN calls : calls[q].err = "running"}) < MaxLogs

\* The calls without request r, which has returned
Returned(r) == [q \in DOMAIN calls \ {r} |-> calls[q]]

\* startTimer up to its first await: findOne({user, isActive: true}); the
\* call goes on to stopTimer when a timer was found and to create otherwise
startTimerFind(r, userId) ==
  /\ r \notin DOMAIN calls
  /\ RoomForLog
  /\ calls' = [q \in DOMAIN calls \cup {r} |->
                 IF q = r
                   THEN [op |-> "start", user |-> userId, err |-> "running",
                         pc |-> IF ActiveTimers(timeLogs, userId) # {}
                                  THEN "stop" ELSE "create"]
                   ELSE calls[q]]
  /\ UNCHANGED timeLogs

\* this.stopTimer(userId) inside startTimer: its own findOne, 404 when no
\* timer is active by now, else the timer found is saved with isActive false
startTimerStop(r) ==
  /\ r \in DOMAIN calls /\ calls[r].op = "start" /\ calls[r].pc = "stop"
  /\ \/ /\ ActiveTimers(timeLogs, calls[r].user) = {}
        /\ calls' = Returned(r)
        /\ UNCHANGED timeLogs
     \/ \E i \in ActiveTimers(timeLogs, calls[r].user) :
          /\ timeLogs' = [timeLogs EXCEPT ![i].isActive = FALSE]
          /\ calls' = [calls EXCEPT ![r].pc = "create"]

\* TimeLog.create({user, ..., isActive: true}) of startTimer
startTimerCreate(r) ==
  /\ r \in DOMAIN calls /\ calls[r].op = "start" /\ calls[r].pc = "create"
  /\ timeLogs' = CreateTimeLog(timeLogs, calls[r].user, TRUE)
  /\ calls' = Returned(r)

\* stopTimer called by the route: 404 when the user has no active timer
stopTimer(userId) ==
  /\ \E i \in ActiveTimers(timeLogs, userId) :
       timeLogs' = [timeLogs EXCEPT ![i].isActive = FALSE]
  /\ UNCHANGED calls

\* createManualEntry: a closed time log
createManualEntry(userId) ==
  /\ RoomForLog
  /\ timeLogs' = CreateTimeLog(timeLogs, userId, FALSE)
  /\ UNCHANGED calls

\* cleanupStaleTimers: every active timer older than the cutoff is closed;
\* stale is the set of those timers, of any user
cleanupStaleTimers(stale) ==
  /\ stale # {}
  /\ \A i \in stale : timeLogs[i].isActive
  /\ timeLogs' = [i \in DOMAIN timeLogs |->
                    IF i \in stale THEN [timeLogs[i] EXCEPT !.isActive = FALSE]
                    ELSE timeLogs[i]]
  /\ UNCHANGED calls

\* What the timers leave alone
besidesTimers == <<tasks, nextId, last, flight, organization>>

NextTimer ==
  \/ \E r \in Requests, u \in Users : startTimerFind(r, u) /\ UNCHANGED besidesTimers
  \/ \E r \in Requests : startTimerStop(r) /\ UNCHANGED besidesTimers
  \/ \E r \in Requests : startTimerCreate(r) /\ UNCHANGED besidesTimers
  \/ \E u \in Users : stopTimer(u) /\ UNCHANGED besidesTimers
  \/ \E u \in Users : createManualEntry(u) /\ UNCHANGED besidesTimers
  \/ \E stale \in SUBSET DOMAIN timeLogs :
       cleanupStaleTimers(stale) /\ UNCHANGED besidesTimers

SpecTimer == Init /\ [][NextTimer]_vars

(* C25: under every sequence and interleaving of startTimer, stopTimer,    *)
(* createManualEntry and cleanupStaleTimers, two startTimer calls of one   *)
(* user included, every user has at most one time log with isActive true.  *)
C25_SingleActiveTimer ==
  \A u \in Users : Cardinality(ActiveTimers(timeLogs, u)) <= 1

-----------------------------------------------------------------------------
(* OrganizationService: members and roles of one organization *)

OrgRole == {"admin", "member", "viewer"}

\* Highest document version (__v) the organization reaches
MaxVersion == 3

\* members.findIndex(m => m.user === userId): 0 for the source's -1
findIndex(members, userId) ==
  IF \E i \in DOMAIN members : members[i].user = userId
    THEN CHOOSE i \in DOMAIN members : members[i].user = userId
    ELSE 0

\* getUserRole: the role of a member, "none" for the source's null
getUserRole(members, userId) ==
  IF findIndex(members, userId) = 0 THEN "none"
  ELSE members[findIndex(members, userId)].role

\* members.filter(m => m.role === ADMIN).length
adminCount(members) ==
  Cardinality({i \in DOMAIN members : members[i].role = "admin"})

\* hasAdmin: members.some(m => m.role === ADMIN)
hasAdmin(members) == adminCount(members) >= 1

\* members.splice(idx, 1)
splice(members, idx) ==
  [i \in 1..(Len(members) - 1) |-> IF i < idx THEN members[i] ELSE members[i + 1]]

\* The pre-save hook: an empty member list becomes the creator as admin
preSave(doc) ==
  IF doc.members = << >>
    THEN [doc EXCEPT !.members = <<[user |-> doc.createdBy, role |-> "admin"]>>]
    ELSE doc

\* createOrganization: the creator is its only member, as admin
createOrganization(userId) ==
  /\ ~organization.exists
  /\ organization' = preSave([exists |-> TRUE, createdBy |-> userId, v |-> 0,
                              members |-> <<[user |-> userId, role |-> "admin"]>>])
  /\ UNCHANGED calls

\* joinWithInviteCode: 400 for a member, else members.push as MEMBER and
\* save, which sends $push and increments __v
joinWithInviteCode(userId) ==
  /\ organization.exists
  /\ findIndex(organization.members, userId) = 0
  /\ organization.v < MaxVersion
  /\ organization' = [organization EXCEPT
                        !.members = Append(@, [user |-> userId, role |-> "member"]),
                        !.v = @ + 1]
  /\ UNCHANGED calls

\* The outcome of the checks of updateMemberRole on the document it loaded
updateMemberRoleCheck(doc, adminUserId, targetUserId, newRole) ==
  IF ~doc.exists THEN 404
  ELSE IF getUserRole(doc.members, adminUserId) # "admin" THEN 403
  ELSE IF findIndex(doc.members, targetUserId) = 0 THEN 404
  ELSE IF /\ doc.members[findIndex(doc.members, targetUserId)].role = "admin"
          /\ newRole # "admin"
          /\ adminCount(doc.members) <= 1 THEN 400
  ELSE 200

\* The outcome of the checks of removeMember on the document it loaded
removeMemberCheck(doc, adminUserId, targetUserId) ==
  IF ~doc.exists THEN 404
  ELSE IF getUserRole(doc.members, adminUserId) # "admin" /\ adminUserId # targetUserId
    THEN 403
  ELSE IF findIndex(doc.members, targetUserId) = 0 THEN 404
  ELSE IF /\ doc.members[findIndex(doc.members, targetUserId)].role = "admin"
          /\ adminCount(doc.members) <= 1 THEN 400
  ELSE 200

\* A call of request r that has loaded the organization and passed its checks
OrgCall(op, adminUserId, targetUserId, newRole) ==
  [op |-> op, user |-> adminUserId, target |-> targetUserId, role |-> newRole,
   doc |-> organization, err |-> "running"]

\* updateMemberRole up to save: findById and the checks; a failed check
\* throws and the organization stays as it is
updateMemberRoleLoad(r, adminUserId, targetUserId, newRole) ==
  /\ r \notin DOMAIN calls
  /\ calls' = IF updateMemberRoleCheck(organization, adminUserId, targetUserId, newRole) = 200
                THEN [q \in DOMAIN calls \cup {r} |->
                        IF q = r THEN OrgCall("role", adminUserId, targetUserId, newRole)
                        ELSE calls[q]]
                ELSE calls
  /\ UNCHANGED organization

\* organization.save() of updateMemberRole: $set of members.<idx>.role where
\* __v is the version loaded, which it leaves as it is; no document with that
\* version is a VersionError
updateMemberRoleSave(r) ==
  /\ r \in DOMAIN calls /\ calls[r].op = "role"
  /\ calls' = Returned(r)
  /\ IF organization.v = calls[r].doc.v
       THEN organization' =
              [organization EXCEPT
                 !.members[findIndex(calls[r].doc.members, calls[r].target)].role = calls[r].role]
       ELSE UNCHANGED organization

\* removeMember up to its transaction: findById and the checks
removeMemberLoad(r, adminUserId, targetUserId) ==
  /\ r \notin DOMAIN calls
  /\ calls' = IF removeMemberCheck(organization, adminUserId, targetUserId) = 200
                THEN [q \in DOMAIN calls \cup {r} |->
                        IF q = r THEN OrgCall("remove", adminUserId, targetUserId, "none")
                        ELSE calls[q]]
                ELSE calls
  /\ UNCHANGED organization

\* The transaction of removeMember: splice and save, which sends the whole
\* member list of the loaded document where __v is the version loaded and
\* increments it; no document with that version is a VersionError
removeMemberSave(r) ==
  /\ r \in DOMAIN calls /\ calls[r].op = "remove"
  /\ calls' = Returned(r)
  /\ IF organization.v = calls[r].doc.v
       THEN organization' =
              preSave([organization EXCEPT
                         !.members = splice(calls[r].doc.members,
                                            findIndex(calls[r].doc.members, calls[r].target)),
                         !.v = @ + 1])
       ELSE UNCHANGED organization

\* What the organization service leaves alone
besidesOrganization == <<tasks, nextId, last, flight, timeLogs>>

NextOrg ==
  \/ \E u \in Users : createOrganization(u) /\ UNCHANGED besidesOrganization
  \/ \E u \in Users : joinWithInviteCode(u) /\ UNCHANGED besidesOrganization
  \/ \E r \in Requests, a, t \in Users, role \in OrgRole :
       updateMemberRoleLoad(r, a, t, role) /\ UNCHANGED besidesOrganization
  \/ \E r \in Requests : updateMemberRoleSave(r) /\ UNCHANGED besidesOrganization
  \/ \E r \in Requests, a, t \in Users :
       /\ organization.v < MaxVersion
       /\ removeMemberLoad(r, a, t) /\ UNCHANGED besidesOrganization
  \/ \E r \in Requests : removeMemberSave(r) /\ UNCHANGED besidesOrganization

SpecOrg == Init /\ [][NextOrg]_vars

(* C26: under every sequence and interleaving of createOrganization,       *)
(* joinWithInviteCode, updateMemberRole and removeMember, two admins who   *)
(* demote or remove each other at once included, an organization that      *)
(* exists has at least one member with role admin.                         *)
C26_AdminRemains ==
  organization.exists => hasAdmin(organization.members)

-----------------------------------------------------------------------------
(* C27: starting from empty partitions, after every sequence of createTask, *)
(* deleteTask, rebalanceTaskOrder and updateTaskOrder whose newOrderIndex   *)
(* is a positive multiple of 1000, on a free or an occupied slot, the       *)
(* orderIndex values of every (owner, status) partition are pairwise        *)
(* distinct positive multiples of 1000.                                     *)
C27_GridInvariant ==
  /\ \A id \in DOMAIN tasks :
       tasks[id].orderIndex > 0 /\ tasks[id].orderIndex % SPACING = 0
  /\ \A a, b \in DOMAIN tasks :
       (/\ a # b
        /\ tasks[a].createdBy = tasks[b].createdBy
        /\ tasks[a].status = tasks[b].status)
       => tasks[a].orderIndex # tasks[b].orderIndex

\* A move onto the slot another task holds, in a partition of three, has
\* completed
C27_Witness ==
  /\ MovedOk
  /\ last.id \in DOMAIN last.pre
  /\ Cardinality(Partition(last.pre, last.user, last.status)) = MaxTasks
  /\ \E b \in Partition(last.pre, last.user, last.status) :
       b # last.id /\ last.pre[b].orderIndex = last.idx
  /\ last.pre[last.id].orderIndex # last.idx

-----------------------------------------------------------------------------
\* The partition holds pairwise distinct multiples of 1000
OnGrid(store, userId, status) ==
  /\ \A a \in Partition(store, userId, status) : store[a].orderIndex % SPACING = 0
  /\ \A a, b \in Partition(store, userId, status) :
       a # b => store[a].orderIndex # store[b].orderIndex

(* C28: when the source and the destination partition of a move hold        *)
(* pairwise distinct multiples of 1000 and newOrderIndex is a multiple of   *)
(* 1000, any two tasks other than the moved one that share a partition are  *)
(* in the same order by orderIndex after updateTaskOrder as before it.      *)
C28_BystandersKeepOrder ==
  (/\ MovedOk
   /\ last.idx % SPACING = 0
   /\ OnGrid(last.pre, last.user, last.pre[last.id].status)
   /\ OnGrid(last.pre, last.user, last.status))
  => \A a, b \in DOMAIN last.pre \ {last.id} :
       (/\ last.pre[a].createdBy = last.pre[b].createdBy
        /\ last.pre[a].status = last.pre[b].status)
       => /\ a \in DOMAIN tasks /\ b \in DOMAIN tasks
          /\ tasks[a].status = last.pre[a].status /\ tasks[b].status = last.pre[b].status
          /\ (tasks[a].orderIndex < tasks[b].orderIndex
                <=> last.pre[a].orderIndex < last.pre[b].orderIndex)

\* A move within a partition of three has shifted one of its two bystanders
\* and left the other where it was
C28_Witness ==
  /\ MovedOk
  /\ last.pre[last.id].status = last.status
  /\ \E a, b \in Partition(last.pre, last.user, last.status) \ {last.id} :
       /\ a # b
       /\ tasks[a].orderIndex # last.pre[a].orderIndex
       /\ tasks[b].orderIndex = last.pre[b].orderIndex

-----------------------------------------------------------------------------
(* C29: createTask, updateTaskOrder and rebalanceTaskOrder called with user *)
(* u leave every task created by another user as it was, with its status    *)
(* and orderIndex, also when that task has the status and an orderIndex in  *)
(* the range the call works on.                                             *)
C29_OwnerIsolation ==
  last.op \in {"create", "move", "rebalance"}
  => \A id \in DOMAIN last.pre :
       last.pre[id].createdBy # last.user
       => /\ id \in DOMAIN tasks
          /\ tasks[id].createdBy = last.pre[id].createdBy
          /\ tasks[id].status = last.pre[id].status
          /\ tasks[id].orderIndex = last.pre[id].orderIndex

\* A move between statuses has shifted a task of the caller in the source
\* partition while another user's task with that status and a higher
\* orderIndex than the moved task's stayed where it was
C29_Witness ==
  /\ MovedOk
  /\ last.pre[last.id].status # last.status
  /\ \E own, other \in DOMAIN last.pre \ {last.id} :
       /\ last.pre[own].createdBy = last.user
       /\ last.pre[other].createdBy # last.user
       /\ last.pre[own].status = last.pre[last.id].status
       /\ last.pre[other].status = last.pre[last.id].status
       /\ last.pre[other].orderIndex > last.pre[last.id].orderIndex
       /\ tasks[own].orderIndex # last.pre[own].orderIndex
       /\ tasks[other] = last.pre[other]

====
